---- MODULE Spec2Model ----
(***************************************************************************)
(* wloverview / wlroverview: a window-switcher overlay for wlroots          *)
(* compositors.  The module models the two program variants of the          *)
(* repository (src/wloverview.py and src/wlroverview.py): the title         *)
(* normalizer, the grid layout solver inside populate, and the handlers     *)
(* that issue wlrctl invocations (tile click, tile close button).           *)
(*                                                                          *)
(* Strings are sequences of code points; a code point is written as a       *)
(* TLA+ string naming it ("x", "EMDASH", "ZWSP", ...).                      *)
(***************************************************************************)
EXTENDS Integers, Sequences, FiniteSets, TLC

(***************************************************************************)
(* Bounds                                                                   *)
(***************************************************************************)
\* longest argument string handed to normalize_title in SpecNorm
MaxLen == 4
\* most lines `wlrctl toplevel list` prints in Spec
MaxLines == 2
\* most windows open at once in SpecLayout
MaxItems == 50
\* most presses of a tile's close button in one run
MaxClosePresses == 1
\* most entries of the dock configuration in SpecDock
MaxDock == 2
\* how many more times the program is started while the overlay is open
MaxActivations == 1
\* most entries the dock editor holds
MaxApps == 3

(***************************************************************************)
(* Code points                                                              *)
(***************************************************************************)
\* code points the normalizer is exercised with:
\*   x         U+0078  a letter with no precomposed accented form
\*   e         U+0065  composes with U+0301 to U+00E9
\*   E_ACUTE   U+00E9  canonical decomposition  e + U+0301
\*   ACUTE     U+0301  combining acute accent (combining class 230)
\*   ZWSP      U+200B  zero width space (category Cf, not whitespace)
\*   EMDASH    U+2014
\*   NBHYPHEN  U+2011  compatibility decomposition  <noBreak> U+2010
\*   -         U+002D
\*   SPACE     U+0020
\*   NBSP      U+00A0  compatibility decomposition  <noBreak> U+0020
\*   TAB       U+0009
Alphabet ==
    {"x", "e", "E_ACUTE", "ACUTE", "ZWSP", "EMDASH", "NBHYPHEN", "-",
     "SPACE", "NBSP", "TAB"}

\* keys of _DASH_TRANSLATION
DashLike ==
    {"HYPHEN", "NBHYPHEN", "FIGUREDASH", "ENDASH", "EMDASH", "MINUS",
     "HYPHENBULLET"}

\* the class of _ZERO_WIDTH_RE: U+200B, U+200C, U+200D, U+FEFF
ZERO_WIDTH_RE == {"ZWSP", "ZWNJ", "ZWJ", "BOM"}

\* code points for which str.isspace() is true
Whitespace == {"SPACE", "TAB", "NBSP"}

RECURSIVE Flatten(_)
Flatten(ss) ==
    IF ss = <<>> THEN <<>> ELSE Head(ss) \o Flatten(Tail(ss))

RECURSIVE Filter(_, _)
\* the code points of s that are not in the set drop, in order
Filter(s, drop) ==
    IF s = <<>> THEN <<>>
    ELSE IF Head(s) \in drop THEN Filter(Tail(s), drop)
         ELSE <<Head(s)>> \o Filter(Tail(s), drop)

(***************************************************************************)
(* unicodedata.normalize("NFKC", s)                                         *)
(***************************************************************************)
\* full compatibility decomposition of one code point
Decompose(c) ==
    CASE c = "E_ACUTE"  -> <<"e", "ACUTE">>
      [] c = "NBSP"     -> <<"SPACE">>
      [] c = "NBHYPHEN" -> <<"HYPHEN">>
      [] OTHER          -> <<c>>

RECURSIVE Compose(_, _)
\* canonical composition, left to right: a combining mark joins the last
\* starter when nothing stands between them and a composite exists
Compose(done, rest) ==
    IF rest = <<>> THEN done
    ELSE IF /\ Head(rest) = "ACUTE"
            /\ done # <<>>
            /\ done[Len(done)] = "e"
         THEN Compose(SubSeq(done, 1, Len(done) - 1) \o <<"E_ACUTE">>, Tail(rest))
         ELSE Compose(Append(done, Head(rest)), Tail(rest))

NFKC(s) ==
    Compose(<<>>, Flatten([i \in 1..Len(s) |-> Decompose(s[i])]))

(***************************************************************************)
(* normalize_title                                                          *)
(***************************************************************************)
\* a translation table that lacks the em dash
DASH_TRANSLATION_NoEmDash(s) ==
    [i \in 1..Len(s) |->
        IF s[i] \in DashLike \ {"EMDASH"} THEN "-" ELSE s[i]]

\* s.translate(_DASH_TRANSLATION)
DASH_TRANSLATION(s) ==
    [i \in 1..Len(s) |-> IF s[i] \in DashLike THEN "-" ELSE s[i]]

RECURSIVE SplitFrom(_, _, _)
\* s.split(): the maximal runs of non-whitespace code points of s;
\* cur is the run being read, toks the runs already complete
SplitFrom(s, cur, toks) ==
    IF s = <<>> THEN (IF cur = <<>> THEN toks ELSE Append(toks, cur))
    ELSE IF Head(s) \in Whitespace
         THEN SplitFrom(Tail(s), <<>>,
                        IF cur = <<>> THEN toks ELSE Append(toks, cur))
         ELSE SplitFrom(Tail(s), Append(cur, Head(s)), toks)

Split(s) == SplitFrom(s, <<>>, <<>>)

RECURSIVE Join(_)
\* " ".join(toks)
Join(toks) ==
    IF toks = <<>> THEN <<>>
    ELSE IF Len(toks) = 1 THEN toks[1]
    ELSE toks[1] \o <<"SPACE">> \o Join(Tail(toks))

\* the argument of normalize_title: None or a str
NoneArg == [isNone |-> TRUE, chars |-> <<>>]
StrArg(s) == [isNone |-> FALSE, chars |-> s]

\* zero-width code points removed only after the whitespace split
normalize_title_StripLast(arg) ==
    IF arg.isNone \/ arg.chars = <<>> THEN <<>>
    ELSE Filter(Join(Split(DASH_TRANSLATION(NFKC(arg.chars)))), ZERO_WIDTH_RE)

normalize_title(arg) ==
    IF arg.isNone \/ arg.chars = <<>> THEN <<>>
    ELSE Join(Split(DASH_TRANSLATION(Filter(NFKC(arg.chars), ZERO_WIDTH_RE))))

(***************************************************************************)
(* The layout solver of populate                                            *)
(***************************************************************************)
Variants == {"wloverview", "wlroverview"}

\* spacing = 22
spacing == 22

\* the share of the window width the grid may take, in twentieths:
\* w * 0.9 in wloverview.py, w * 0.85 in wlroverview.py
WidthFraction20(variant) == IF variant = "wloverview" THEN 18 ELSE 17

\* the share of the window height, in twentieths:
\* h * 0.8 in wloverview.py, h * 0.6 in wlroverview.py
HeightFraction20(variant) == IF variant = "wloverview" THEN 16 ELSE 12

\* populate returns early below this width or height
MinDimension == 200

\* The solver computes in doubles.  The model computes the same values as
\* exact fractions num/den with den > 0.
Frac(n, d) == [num |-> n, den |-> d]
FracLess(a, b) == a.num * b.den < b.num * a.den
FracEq(a, b) == a.num * b.den = b.num * a.den
FracMin(a, b) == IF FracLess(b, a) THEN b ELSE a

\* floor division in place of math.ceil
CeilDiv_Floor(count, cols) == count \div cols

\* math.ceil(count / cols)
CeilDiv(count, cols) == (count + cols - 1) \div cols

\* max_w = (w * 0.9 - (cols - 1) * spacing) / cols
max_w(variant, w, cols) ==
    Frac(w * WidthFraction20(variant) - 20 * (cols - 1) * spacing, 20 * cols)

\* max_h = (h * 0.8 - (rows - 1) * spacing) / rows, times (4 / 3)
max_h_times_aspect(variant, h, rows) ==
    Frac(4 * (h * HeightFraction20(variant) - 20 * (rows - 1) * spacing),
         60 * rows)

\* tw = min(max_w, max_h * (4 / 3)) for one candidate column count
Candidate(variant, count, w, h, cols) ==
    FracMin(max_w(variant, w, cols),
            max_h_times_aspect(variant, h, CeilDiv(count, cols)))

\* if tw > best_w: the outcomes of the comparison.  Two doubles whose exact
\* values are equal may differ in the last bit in either direction (3
\* windows at 1920x1080 in wloverview.py: 561.3333333333333 for 2 columns,
\* 561.3333333333334 for 3), so on exact equality both outcomes are possible.
ReplacesIncumbent(tw, best) ==
    IF FracLess(best, tw) THEN {TRUE}
    ELSE IF FracLess(tw, best) THEN {FALSE}
    ELSE {TRUE, FALSE}

RECURSIVE SolverLoop_SkipLast(_, _, _, _, _, _)
\* for cols in range(1, count): the last column count is never tried
SolverLoop_SkipLast(variant, count, w, h, cols, incumbents) ==
    IF cols >= count THEN incumbents
    ELSE LET tw == Candidate(variant, count, w, h, cols)
             after ==
                 UNION {
                     {IF replace THEN [best_cols |-> cols, best_w |-> tw]
                                 ELSE inc
                        : replace \in ReplacesIncumbent(tw, inc.best_w)}
                     : inc \in incumbents}
         IN  SolverLoop_SkipLast(variant, count, w, h, cols + 1, after)

RECURSIVE SolverLoop(_, _, _, _, _, _)
\* for cols in range(1, count + 1): ...; the set of (best_cols, best_w) the
\* loop can end with, given the incumbents possible before column cols
SolverLoop(variant, count, w, h, cols, incumbents) ==
    IF cols > count THEN incumbents
    ELSE LET tw == Candidate(variant, count, w, h, cols)
             after ==
                 UNION {
                     {IF replace THEN [best_cols |-> cols, best_w |-> tw]
                                 ELSE inc
                        : replace \in ReplacesIncumbent(tw, inc.best_w)}
                     : inc \in incumbents}
         IN  SolverLoop(variant, count, w, h, cols + 1, after)

\* rows = count // best_cols in place of math.ceil(count / best_cols)
Solve_RowsFloor(variant, count, w, h) ==
    LET ends == SolverLoop(variant, count, w, h, 1,
                           {[best_cols |-> 1, best_w |-> Frac(0, 1)]})
    IN  {[columns |-> e.best_cols,
          rows    |-> count \div e.best_cols,
          best_w  |-> e.best_w,
          tile_w  |-> e.best_w.num \div e.best_w.den,
          tile_h  |-> ((e.best_w.num \div e.best_w.den) * 3) \div 4]
         : e \in ends}

\* the geometry populate derives for count >= 1 windows in a w x h window:
\* best_cols, rows, tile_w = int(best_w), tile_h = int(tile_w * 0.75)
Solve(variant, count, w, h) ==
    LET ends == SolverLoop(variant, count, w, h, 1,
                           {[best_cols |-> 1, best_w |-> Frac(0, 1)]})
    IN  {[columns |-> e.best_cols,
          rows    |-> CeilDiv(count, e.best_cols),
          best_w  |-> e.best_w,
          tile_w  |-> e.best_w.num \div e.best_w.den,
          tile_h  |-> ((e.best_w.num \div e.best_w.den) * 3) \div 4]
         : e \in ends}

(***************************************************************************)
(* Window enumeration: get_windows                                          *)
(***************************************************************************)
\* application_id of the overview itself
OwnAppId == "org.broomlabs.wloverview"

\* one line of `wlrctl toplevel list`: text without a colon (colon = FALSE)
\* or  appid:title.  A title is a str; besides the code points above it may
\* hold "~" and unbroken runs of ASCII letters such as "WlOverview".
Line(a, t) == [colon |-> TRUE, appid |-> a, title |-> t]
NoColonLine == [colon |-> FALSE, appid |-> "", title |-> <<>>]

RECURSIVE LStrip(_)
LStrip(s) ==
    IF s # <<>> /\ Head(s) \in Whitespace THEN LStrip(Tail(s)) ELSE s

RECURSIVE RStrip(_)
RStrip(s) ==
    IF s # <<>> /\ s[Len(s)] \in Whitespace
    THEN RStrip(SubSeq(s, 1, Len(s) - 1)) ELSE s

\* title.strip()
Strip(s) == RStrip(LStrip(s))

\* title.lower()
Lower(s) ==
    [i \in 1..Len(s) |-> IF s[i] = "WlOverview" THEN "wloverview" ELSE s[i]]

\* no line is skipped
Excluded_Never(variant, appid, title) == FALSE

\* the condition under which get_windows skips a parsed line
Excluded(variant, appid, title) ==
    \/ appid = OwnAppId
    \/ variant = "wlroverview" /\ Lower(title) = <<"wloverview">>

\* the for loop of get_windows: the lines with a colon that are not
\* excluded, in order, each as (appid, title, normalize_title(title))
ParseLines(variant, lines) ==
    LET kept == {i \in 1..Len(lines) :
                    /\ lines[i].colon
                    /\ ~Excluded(variant, lines[i].appid, Strip(lines[i].title))}
        nth(k) == CHOOSE i \in kept : Cardinality({j \in kept : j <= i}) = k
    IN  [k \in 1..Cardinality(kept) |->
            LET title == Strip(lines[nth(k)].title)
            IN  [appid |-> lines[nth(k)].appid,
                 title_raw |-> title,
                 title_norm |-> normalize_title(StrArg(title))]]

\* get_windows without the try/except: whatever the tool printed is parsed
get_windows_IgnoreFailure(variant, tool) ==
    ParseLines(variant, tool.lines)

\* get_windows(): tool.ok is FALSE when check_output raises
get_windows(variant, tool) ==
    IF ~tool.ok THEN <<>> ELSE ParseLines(variant, tool.lines)

(***************************************************************************)
(* wlrctl invocations                                                       *)
(***************************************************************************)
\* the match spec of one invocation: an optional app id constraint under
\* the key app_key ("app_id", "app-id" or "none"), then an optional title
\* constraint
MatchSpec(k, a, hasTitle, t) ==
    [app_key |-> k, appid |-> a, has_title |-> hasTitle, title |-> t]

AppTitle(k, a, t) == MatchSpec(k, a, TRUE, t)
TitleOnly(t) == MatchSpec("none", "", TRUE, t)
AppOnly(k, a) == MatchSpec(k, a, FALSE, <<>>)

\* os.path.expanduser("~")
Home == "HOME"

RECURSIVE ReplaceFirst(_, _, _)
\* title.replace(old, new, 1)
ReplaceFirst(s, old, new) ==
    IF s = <<>> THEN <<>>
    ELSE IF Head(s) = old THEN <<new>> \o Tail(s)
         ELSE <<Head(s)>> \o ReplaceFirst(Tail(s), old, new)

expand_tilde_variants(title) ==
    IF \A i \in 1..Len(title) : title[i] # "~" THEN <<title>>
    ELSE <<title, ReplaceFirst(title, "~", Home)>>

key_variants == <<"app_id", "app-id">>

\* the list `tries` built by _wlrctl_focus_try(appid, title) in wloverview.py
wlrctl_focus_try(appid, title) ==
    LET ts == expand_tilde_variants(title)
        both ==
            IF appid # "" /\ title # <<>>
            THEN Flatten([k \in 1..2 |->
                     [j \in 1..Len(ts) |-> AppTitle(key_variants[k], appid, ts[j])]])
            ELSE <<>>
        byTitle == IF title # <<>> THEN <<TitleOnly(title)>> ELSE <<>>
        byApp ==
            IF appid # ""
            THEN [k \in 1..2 |-> AppOnly(key_variants[k], appid)]
            ELSE <<>>
    IN  both \o byTitle \o byApp

\* the match specs focus_window(appid, title_raw, title_norm) puts on its
\* `tries` list(s), in order
focus_tries(variant, appid, title_raw, title_norm) ==
    IF variant = "wloverview"
    THEN wlrctl_focus_try(appid, title_raw)
         \o (IF title_norm # <<>> /\ title_norm # title_raw
             THEN wlrctl_focus_try(appid, title_norm) ELSE <<>>)
    ELSE <<AppTitle("app_id", appid, title_raw),
           AppTitle("app_id", appid, title_norm),
           TitleOnly(title_raw),
           TitleOnly(title_norm),
           AppOnly("app_id", appid)>>

\* the match specs focus_window hands to subprocess.run, in order, when the
\* i-th run returns exit status rcs[i].  wloverview.py runs every entry of
\* each list; the loop of wlroverview.py returns after its first run.
focus_window(variant, appid, title_raw, title_norm, rcs) ==
    LET tries == focus_tries(variant, appid, title_raw, title_norm)
    IN  IF variant = "wloverview" THEN tries ELSE SubSeq(tries, 1, 1)

\* one invocation of wlrctl toplevel <action> <match spec>; wait is TRUE for
\* subprocess.run (the caller blocks until wlrctl exits and drops its exit
\* status), FALSE for subprocess.Popen
Invocation(act, m, w) ==
    [action |-> act, match |-> m, wait |-> w]

\* on_close of a tile: the close button uses the normalized title
on_close_RawTitle(tile) ==
    Invocation("close", AppTitle("app_id", tile.appid, tile.title_raw),
               FALSE)

on_close(tile) ==
    Invocation("close", AppTitle("app_id", tile.appid, tile.title_norm),
               FALSE)

(***************************************************************************)
(* populate                                                                 *)
(***************************************************************************)
NoGeometry ==
    [columns |-> 0, rows |-> 0, best_w |-> Frac(0, 1), tile_w |-> 0,
     tile_h |-> 0]

\* the tiles attached to the grid: window i (0-based) at row i div columns,
\* column i mod columns
Tiles(wins, geo) ==
    [i \in 1..Len(wins) |->
        [appid |-> wins[i].appid,
         title_raw |-> wins[i].title_raw,
         title_norm |-> wins[i].title_norm,
         row |-> (i - 1) \div geo.columns,
         col |-> (i - 1) % geo.columns]]

\* populate returning False from its early returns too
populate_ReturnsFalse(variant, tool, w, h) ==
    LET wins == get_windows(variant, tool)
    IN  IF wins = <<>> \/ w < MinDimension \/ h < MinDimension
        THEN {[ret |-> FALSE, wins |-> wins, tiles |-> <<>>,
               geometry |-> NoGeometry]}
        ELSE {[ret |-> FALSE, wins |-> wins, tiles |-> Tiles(wins, geo),
               geometry |-> geo]
              : geo \in Solve(variant, Len(wins), w, h)}

\* populate without `if not wins: return True`
populate_NoEmptyCheck(variant, tool, w, h) ==
    LET wins == get_windows(variant, tool)
    IN  IF w < MinDimension \/ h < MinDimension
        THEN {[ret |-> TRUE, wins |-> wins, tiles |-> <<>>,
               geometry |-> NoGeometry]}
        ELSE {[ret |-> FALSE, wins |-> wins, tiles |-> Tiles(wins, geo),
               geometry |-> geo]
              : geo \in Solve(variant, Len(wins), w, h)}

\* the outcomes of one populate() call: ret is its return value (TRUE keeps
\* the idle source installed)
populate(variant, tool, w, h) ==
    LET wins == get_windows(variant, tool)
    IN  IF wins = <<>> \/ w < MinDimension \/ h < MinDimension
        THEN {[ret |-> TRUE, wins |-> wins, tiles |-> <<>>,
               geometry |-> NoGeometry]}
        ELSE {[ret |-> FALSE, wins |-> wins, tiles |-> Tiles(wins, geo),
               geometry |-> geo]
              : geo \in Solve(variant, Len(wins), w, h)}

(***************************************************************************)
(* The dock: load_dock_config, build_dock, on_click, launch                 *)
(***************************************************************************)
\* Python's None: the value of e.get(key) for a key the entry lacks
None == "<None>"

\* truth value of a str or None, as `x or y`, `not x` and bool(x) take it
Truthy(v) == v \notin {None, ""}

\* one element of the JSON array of config.json: an object with the keys
\* title, icon, exec, app_id (None for an absent key), or a value that is
\* not an object (a string, a number)
DockEntry(t, i, x, a) ==
    [isObject |-> TRUE, title |-> t, icon |-> i, exec |-> x, app_id |-> a]
NotAnObject ==
    [isObject |-> FALSE, title |-> None, icon |-> None, exec |-> None,
     app_id |-> None]

\* a JSON value as build_dock uses it: `items` is what `for e in cfg`
\* yields, the elements of an array or the keys (strings) of an object
JsonList(items) == [type |-> "list", items |-> items]
JsonObject(nkeys) ==
    [type |-> "object", items |-> [k \in 1..nkeys |-> NotAnObject]]

\* ~/.config/wloverview/config.json: absent, not JSON, or a JSON value
MissingFile == [exists |-> FALSE, parses |-> FALSE, value |-> JsonList(<<>>)]
UnparsableFile == [exists |-> TRUE, parses |-> FALSE, value |-> JsonList(<<>>)]
JsonFile(v) == [exists |-> TRUE, parses |-> TRUE, value |-> v]

\* load_dock_config(): [] for a missing file and for any exception
load_dock_config(file) ==
    IF ~file.exists THEN JsonList(<<>>)
    ELSE IF ~file.parses THEN JsonList(<<>>)
    ELSE file.value

\* running_apps = {appid for appid, *_ in wins}
running_apps(wins) == {wins[i].appid : i \in 1..Len(wins)}

\* the dock button of an entry that falls back to the icon name even when
\* the entry has an app_id
DockButton_IconOnly(variant, e, running) ==
    [app_id |-> e.icon,
     cmd |-> e.exec,
     is_running |-> IF variant = "wloverview"
                    THEN Truthy(e.icon) /\ e.icon \in running
                    ELSE e.icon \in running,
     entry |-> e]

\* one pass of the loop of build_dock: what on_click captures for entry e.
\* app_id = e.get("app_id") or e.get("icon"); wloverview.py takes an empty
\* or missing app_id as not running, wlroverview.py tests membership only
DockButton(variant, e, running) ==
    LET app_id == IF Truthy(e.app_id) THEN e.app_id ELSE e.icon
    IN  [app_id |-> app_id,
         cmd |-> e.exec,
         is_running |-> IF variant = "wloverview"
                        THEN Truthy(app_id) /\ app_id \in running
                        ELSE app_id \in running,
         entry |-> e]

\* no dock: build_dock returned at `if not cfg`
NoDock ==
    [built |-> FALSE, raised |-> FALSE, running_apps |-> {}, buttons |-> <<>>]

\* build_dock: cfg is what load_dock_config returned, wins the window list
\* running_apps is taken from.  e.get raises AttributeError on an element
\* that is not an object; the exception leaves build_dock and __init__
\* before the dock is added to the overlay.
build_dock(variant, cfg, wins) ==
    IF cfg.items = <<>> THEN NoDock
    ELSE IF \E i \in 1..Len(cfg.items) : ~cfg.items[i].isObject
         THEN [built |-> FALSE, raised |-> TRUE,
               running_apps |-> running_apps(wins), buttons |-> <<>>]
         ELSE [built |-> TRUE, raised |-> FALSE,
               running_apps |-> running_apps(wins),
               buttons |-> [i \in 1..Len(cfg.items) |->
                   DockButton(variant, cfg.items[i], running_apps(wins))]]

\* the argument list of a launched command, in the place of a match spec
Argv(cmd) == MatchSpec("argv", cmd, FALSE, <<>>)

\* what a handler does: the invocations it makes, and whether it closes
\* the overlay
Outcome(inv, close) == [inv |-> inv, close |-> close]

\* launch(cmd); spawned is FALSE when shlex.split or subprocess.Popen
\* raises (unbalanced quote, no such program): close() is then not reached
launch(cmd, spawned) ==
    IF ~Truthy(cmd) THEN Outcome(<<>>, TRUE)
    ELSE IF spawned
         THEN Outcome(<<Invocation("launch", Argv(cmd), FALSE)>>, TRUE)
         ELSE Outcome(<<>>, FALSE)

\* on_click with the running test inverted
on_click_Inverted(variant, b, button, spawned) ==
    IF ~b.is_running
    THEN Outcome(<<Invocation("focus", AppOnly("app_id", b.app_id), TRUE)>>,
                 TRUE)
    ELSE launch(b.cmd, spawned)

\* the "pressed" handler of the dock button b for mouse button `button`:
\* wloverview.py launches whatever the button and the running flag;
\* wlroverview.py launches on button 2, and on button 1 focuses app_id:X
\* once if the entry is running and launches otherwise
on_click(variant, b, button, spawned) ==
    IF variant = "wloverview" THEN launch(b.cmd, spawned)
    ELSE IF button = 2 THEN launch(b.cmd, spawned)
    ELSE IF button = 1
         THEN IF b.is_running
              THEN Outcome(<<Invocation("focus", AppOnly("app_id", b.app_id),
                                        TRUE)>>, TRUE)
              ELSE launch(b.cmd, spawned)
         ELSE Outcome(<<>>, FALSE)

\* the mouse button a Gtk.GestureClick() reacts to: button 1, the default
\* of GtkGestureSingle, since neither file calls set_button
GestureButton == 1

(***************************************************************************)
(* helpers/dock-edit.py: WlOverviewBackend                                  *)
(***************************************************************************)
\* list.pop(i) and list.insert(i, x) for an index i >= 0, counted from 0
Pop(l, i) == SubSeq(l, 1, i) \o SubSeq(l, i + 2, Len(l))
Insert(l, i, x) ==
    LET k == IF i > Len(l) THEN Len(l) ELSE i
    IN  SubSeq(l, 1, k) \o <<x>> \o SubSeq(l, k + 1, Len(l))

\* 0 <= index < len(self.apps)
InRange(index, l) == 0 <= index /\ index < Len(l)

isinstance_dict(a) == a.isObject

\* load(): [] for a missing file, for a file that is not JSON and for JSON
\* that is not a list; of a list, the items that are dicts
load(file) ==
    IF ~file.exists THEN <<>>
    ELSE IF ~file.parses THEN <<>>
    ELSE IF file.value.type # "list" THEN <<>>
    ELSE SelectSeq(file.value.items, isinstance_dict)

\* atomic_write_text(path, text): config.json.tmp is written and renamed
\* over config.json
atomic_write_text(l) == JsonFile(JsonList(l))

\* reload_wloverview(): pkill -USR1 wloverview
reload_wloverview == "pkill -USR1 wloverview"

\* save(): the file it leaves and what it does, in order
save(l) ==
    [file |-> atomic_write_text(l),
     effects |-> <<"write", reload_wloverview>>]

\* what a backend call leaves in self.apps, and whether it reached save()
Call(l, saved) == [apps |-> l, saved |-> saved]

add_app(l, item) == Call(Append(l, item), TRUE)

\* remove_app without the range check: pop(-1) takes the last entry
remove_app_NoRangeCheck(l, index) ==
    IF index >= Len(l) \/ index < -Len(l) THEN Call(l, FALSE)
    ELSE IF index < 0 THEN Call(Pop(l, Len(l) + index), TRUE)
    ELSE Call(Pop(l, index), TRUE)

remove_app(l, index) ==
    IF ~InRange(index, l) THEN Call(l, FALSE)
    ELSE Call(Pop(l, index), TRUE)

\* move_app that exchanges the two entries
move_app_Swap(l, old_index, new_index) ==
    IF ~InRange(old_index, l) THEN Call(l, FALSE)
    ELSE IF ~InRange(new_index, l) THEN Call(l, FALSE)
    ELSE Call([l EXCEPT ![old_index + 1] = l[new_index + 1],
                        ![new_index + 1] = l[old_index + 1]], TRUE)

\* item = self.apps.pop(old_index); self.apps.insert(new_index, item)
move_app(l, old_index, new_index) ==
    IF ~InRange(old_index, l) THEN Call(l, FALSE)
    ELSE IF ~InRange(new_index, l) THEN Call(l, FALSE)
    ELSE Call(Insert(Pop(l, old_index), new_index, l[old_index + 1]), TRUE)

update_app(l, index, item) ==
    IF ~InRange(index, l) THEN Call(l, FALSE)
    ELSE Call([l EXCEPT ![index + 1] = item], TRUE)

(***************************************************************************)
(* State                                                                    *)
(***************************************************************************)
VARIABLES
    variant,    \* which program runs: "wloverview" or "wlroverview"
    tool,       \* what `wlrctl toplevel list` answers at present
    width,      \* get_width() / get_allocated_width() of the main window
    height,     \* get_height() / get_allocated_height()
    mapped,     \* the "map" signal has been delivered
    idle,       \* the idle source of populate is still installed
    windows,    \* self.windows (wloverview.py)
    tiles,      \* the children of self.grid
    geometry,   \* the geometry of the last grid built
    issued,     \* the external invocations made so far, in order
    closed,     \* self.close() has been called
    lastEvent,  \* the handler that ran last, its tile and its `tries`
    nt_arg,     \* SpecNorm: the argument of the current normalize_title call
    nt_res,     \* SpecNorm: its result (a str), once returned
    nt_calls,   \* SpecNorm: how many times the result has been fed back
    cfgFile,    \* the dock configuration file on disk
    dock,       \* what build_dock left behind: the buttons and their flags
    dockEvent,  \* the last press on a dock button
    otherWindows, \* the further windows the application has open
    apps,       \* dock-edit.py: self.apps of the backend
    lastOp      \* dock-edit.py: the last backend call and what it did

uiVars ==
    <<variant, tool, width, height, mapped, idle, windows, tiles, geometry,
      issued, closed, lastEvent>>
normVars == <<nt_arg, nt_res, nt_calls>>
dockVars == <<cfgFile, dock, dockEvent>>
appVars == <<otherWindows>>
backendVars == <<apps, lastOp>>
vars == <<uiVars, normVars, dockVars,
                   appVars, backendVars>>

NoResult == <<"<no result>">>

\* no dock button has been pressed
NoDockEvent == [index |-> 0, button |-> 0, handled |-> FALSE]

\* the dock variables when there is no config.json
DockIdle ==
    /\ cfgFile = MissingFile
    /\ dock = NoDock
    /\ dockEvent = NoDockEvent

\* no backend call has been made
NoOp ==
    [op |-> "none", index |-> 0, new_index |-> 0, item |-> NotAnObject,
     effects |-> <<>>]

\* one overlay window, and no dock editor
EditorIdle ==
    /\ otherWindows = 0
    /\ apps = <<>>
    /\ lastOp = NoOp

\* the normalizer variables while a specification of the overlay runs
NormIdle ==
    /\ nt_arg = NoneArg
    /\ nt_res = NoResult
    /\ nt_calls = 0

(***************************************************************************)
(* SpecNorm: normalize_title as a pure function                             *)
(***************************************************************************)
RECURSIVE StringsUpTo(_)
StringsUpTo(n) ==
    IF n = 0 THEN {<<>>}
    ELSE LET shorter == StringsUpTo(n - 1)
         IN  shorter \cup {Append(s, c) : s \in shorter, c \in Alphabet}

NormArgs == {NoneArg} \cup {StrArg(s) : s \in StringsUpTo(MaxLen)}

NoTile ==
    [appid |-> "", title_raw |-> <<>>, title_norm |-> <<>>, row |-> 0,
     col |-> 0]
NoEvent == [kind |-> "none", tile |-> NoTile, tries |-> <<>>, base |-> 0]

\* the overlay variables while SpecNorm runs
UiIdle ==
    /\ variant = "wloverview"
    /\ tool = [ok |-> FALSE, lines |-> <<>>]
    /\ width = 0
    /\ height = 0
    /\ mapped = FALSE
    /\ idle = FALSE
    /\ windows = <<>>
    /\ tiles = <<>>
    /\ geometry = NoGeometry
    /\ issued = <<>>
    /\ closed = FALSE
    /\ lastEvent = NoEvent

InitNorm ==
    /\ UiIdle
    /\ DockIdle
    /\ EditorIdle
    /\ nt_arg \in NormArgs
    /\ nt_res = NoResult
    /\ nt_calls = 0

\* the first call: normalize_title(nt_arg)
NormalizeCall ==
    /\ nt_calls = 0
    /\ nt_res' = normalize_title(nt_arg)
    /\ nt_calls' = 1
    /\ UNCHANGED <<nt_arg, uiVars, dockVars,
                   appVars, backendVars>>

\* the result of the first call is normalized again
NormalizeAgain ==
    /\ nt_calls = 1
    /\ nt_arg' = StrArg(nt_res)
    /\ nt_res' = normalize_title(StrArg(nt_res))
    /\ nt_calls' = 2
    /\ UNCHANGED <<uiVars, dockVars,
                   appVars, backendVars>>

NextNorm == NormalizeCall \/ NormalizeAgain

SpecNorm == InitNorm /\ [][NextNorm]_vars

(***************************************************************************)
(* Properties of normalize_title (checked under SpecNorm)                   *)
(***************************************************************************)
\* number of positions of s that hold a code point of the set cs
Count(s, cs) == Cardinality({i \in 1..Len(s) : s[i] \in cs})

\* number of maximal runs of whitespace in s
WhitespaceRuns(s) ==
    Cardinality({i \in 1..Len(s) :
        /\ s[i] \in Whitespace
        /\ (i = 1 \/ s[i - 1] \notin Whitespace)})

\* C5: normalize_title is idempotent: normalizing the result of a call
\* again returns that result unchanged.
C5_Idempotent ==
    nt_calls = 2 => nt_res = nt_arg.chars

\* C6: the result of normalize_title holds no zero-width code point and no
\* non-ASCII dash variant, and every dash-like code point of the argument
\* is present in the result as an ASCII '-'.
C6_Clean ==
    nt_calls >= 1 =>
        /\ Count(nt_res, ZERO_WIDTH_RE \cup DashLike) = 0
        /\ Count(nt_res, {"-"}) >= Count(nt_arg.chars, DashLike)

\* a call on "x" EM-DASH ZWSP has returned "x-"
C6_Witness ==
    /\ nt_calls = 1
    /\ nt_arg = StrArg(<<"x", "EMDASH", "ZWSP">>)
    /\ nt_res = <<"x", "-">>

\* C7: normalize_title returns a str for None, "" and every str; the
\* result has no leading or trailing whitespace, its only whitespace is
\* single U+0020 between words (never more spaces than the argument has
\* whitespace runs), and None or "" gives "".
C7_WhitespaceCollapsed ==
    nt_calls >= 1 =>
        /\ nt_res \in Seq(Alphabet \cup {"HYPHEN"})
        /\ \A i \in 1..Len(nt_res) :
              nt_res[i] \in Whitespace =>
                /\ nt_res[i] = "SPACE"
                /\ 1 < i /\ i < Len(nt_res)
                /\ nt_res[i + 1] \notin Whitespace
        /\ Count(nt_res, Whitespace) <= WhitespaceRuns(nt_arg.chars)
        /\ (nt_arg.isNone \/ nt_arg.chars = <<>>) => nt_res = <<>>

\* a call on TAB SPACE "x" NBSP (a leading run of two and a trailing run)
\* has returned "x"
C7_Witness ==
    /\ nt_calls = 1
    /\ nt_arg = StrArg(<<"TAB", "SPACE", "x", "NBSP">>)
    /\ nt_res = <<"x">>

(***************************************************************************)
(* Spec: the overlay                                                        *)
(***************************************************************************)
\* the lines the window list is made of in Spec
Lines ==
    {NoColonLine,
     Line("foot", <<"SPACE", "x">>),
     Line("foot", <<"x", "EMDASH">>),
     Line("foot", <<"~">>),
     Line("foot", <<"WlOverview">>),
     Line("", <<"ZWSP">>),
     Line(OwnAppId, <<"x">>)}

RECURSIVE SeqsUpTo(_, _)
\* the sequences of at most n elements of the set S
SeqsUpTo(S, n) ==
    IF n = 0 THEN {<<>>}
    ELSE LET shorter == SeqsUpTo(S, n - 1)
         IN  shorter \cup {Append(q, x) : q \in shorter, x \in S}

ToolAnswers ==
    {[ok |-> FALSE, lines |-> <<>>]}
        \cup {[ok |-> TRUE, lines |-> ls] : ls \in SeqsUpTo(Lines, MaxLines)}

\* window sizes <<width, height>> the compositor may allocate: in Spec,
\* and in SpecLayout
Sizes == {<<199, 1080>>, <<1000, 700>>}
LayoutSizes ==
    {<<199, 1080>>, <<200, 200>>, <<1000, 700>>, <<1920, 1080>>}

\* the state __init__ leaves behind when `wlrctl toplevel list` answers
\* one of `answers` and config.json is one of `files`
InitUi(answers, files) ==
    /\ variant \in Variants
    /\ tool \in answers
    /\ cfgFile \in files
    /\ dock = build_dock(variant, load_dock_config(cfgFile),
                         get_windows(variant, tool))
    /\ dockEvent = NoDockEvent
    /\ width = 0
    /\ height = 0
    /\ mapped = FALSE
    /\ idle = TRUE
    /\ windows = IF variant = "wloverview" THEN get_windows(variant, tool)
                 ELSE <<>>
    /\ tiles = <<>>
    /\ geometry = NoGeometry
    /\ issued = <<>>
    /\ closed = FALSE
    /\ lastEvent = NoEvent
    /\ NormIdle
    /\ EditorIdle

\* the same without a config.json
InitWith(answers) == InitUi(answers, {MissingFile})

Init == InitWith(ToolAnswers)

\* app.run(): the main loop dispatches sources and events while the
\* application has a window; close() destroys this window, and the
\* application quits when it has no window left
Running == ~closed \/ otherWindows > 0

Event(k, t, tr) ==
    [kind |-> k, tile |-> t, tries |-> tr, base |-> Len(issued)]

\* the compositor gives the fullscreen window one of the given sizes
AllocateFrom(sizes) ==
    /\ ~closed
    /\ width = 0 /\ height = 0
    /\ \E size \in sizes :
        /\ width' = size[1]
        /\ height' = size[2]
    /\ UNCHANGED <<variant, tool, mapped, idle, windows, tiles, geometry,
                   issued, closed, lastEvent, normVars, dockVars,
                   appVars, backendVars>>

Allocate == AllocateFrom(Sizes)

\* a toplevel goes away
ToplevelClosed ==
    /\ ~closed
    /\ tool.ok
    /\ \E i \in 1..Len(tool.lines) :
        tool' = [tool EXCEPT !.lines =
                    SubSeq(tool.lines, 1, i - 1)
                        \o SubSeq(tool.lines, i + 1, Len(tool.lines))]
    /\ UNCHANGED <<variant, width, height, mapped, idle, windows, tiles,
                   geometry, issued, closed, lastEvent, normVars, dockVars,
                   appVars, backendVars>>

\* populate without the loop that removes the children of the grid
RunPopulate_KeepsOld(r) ==
    /\ windows' = IF variant = "wloverview" THEN r.wins ELSE windows
    /\ tiles' = tiles \o r.tiles
    /\ geometry' = r.geometry

\* what one populate() call does to the window
RunPopulate(r) ==
    /\ windows' = IF variant = "wloverview" THEN r.wins ELSE windows
    /\ tiles' = r.tiles
    /\ geometry' = r.geometry

\* GLib.idle_add(self.populate): called again while it returns True
IdlePopulate ==
    /\ Running
    /\ idle
    /\ \E r \in populate(variant, tool, width, height) :
        /\ RunPopulate(r)
        /\ idle' = r.ret
    /\ lastEvent' = Event("populate", NoTile, <<>>)
    /\ UNCHANGED <<variant, tool, width, height, mapped, issued, closed,
                   normVars, dockVars,
                   appVars, backendVars>>

\* the "map" signal: wloverview.py connects populate to it, wlroverview.py
\* connects nothing
OnMap ==
    /\ ~closed
    /\ ~mapped
    /\ mapped' = TRUE
    /\ IF variant = "wloverview"
       THEN /\ \E r \in populate(variant, tool, width, height) : RunPopulate(r)
            /\ lastEvent' = Event("populate", NoTile, <<>>)
       ELSE UNCHANGED <<windows, tiles, geometry, lastEvent>>
    /\ UNCHANGED <<variant, tool, width, height, idle, issued, closed,
                   normVars, dockVars,
                   appVars, backendVars>>

\* the exit statuses wlrctl may return to the n runs of one cascade: no
\* attempt matches, only the first matches, every attempt matches
ExitStatuses(n) ==
    {[j \in 1..n |-> "1"],
     [j \in 1..n |-> IF j = 1 THEN "0" ELSE "1"],
     [j \in 1..n |-> "0"]}

\* the "clicked" handler of tile i: focus_window(a, tr, tn), then close()
TileClicked ==
    /\ ~closed
    /\ \E i \in 1..Len(tiles) :
        LET t == tiles[i]
            tries == focus_tries(variant, t.appid, t.title_raw, t.title_norm)
        IN  \E rcs \in ExitStatuses(Len(tries)) :
              LET run == focus_window(variant, t.appid, t.title_raw,
                                      t.title_norm, rcs)
              IN  /\ issued' = issued \o
                        [j \in 1..Len(run) |->
                            Invocation("focus", run[j], TRUE)]
                  /\ lastEvent' = Event("tile_clicked", t, tries)
    /\ closed' = TRUE
    /\ UNCHANGED <<variant, tool, width, height, mapped, idle, windows, tiles,
                   geometry, normVars, dockVars,
                   appVars, backendVars>>

\* the "pressed" handler of the close button of tile i
TileClosePressed ==
    /\ ~closed
    /\ Len(issued) < MaxClosePresses
    /\ \E i \in 1..Len(tiles) :
        /\ issued' = Append(issued, on_close(tiles[i]))
        /\ lastEvent' = Event("tile_close", tiles[i], <<>>)
    /\ UNCHANGED <<variant, tool, width, height, mapped, idle, windows, tiles,
                   geometry, closed, normVars, dockVars,
                   appVars, backendVars>>

\* on_bg_click outside every button: close()
BackgroundClicked ==
    /\ ~closed
    /\ closed' = TRUE
    /\ lastEvent' = Event("bg_click", NoTile, <<>>)
    /\ UNCHANGED <<variant, tool, width, height, mapped, idle, windows, tiles,
                   geometry, issued, normVars, dockVars,
                   appVars, backendVars>>

Next ==
    \/ Allocate
    \/ ToplevelClosed
    \/ IdlePopulate
    \/ OnMap
    \/ TileClicked
    \/ TileClosePressed
    \/ BackgroundClicked

Spec == Init /\ [][Next]_vars

(***************************************************************************)
(* SpecLayout: populate with up to MaxItems windows                         *)
(***************************************************************************)
\* `wlrctl toplevel list` answers with n windows, n = 0..MaxItems
ManyWindows ==
    {[ok |-> TRUE, lines |-> [i \in 1..n |-> Line("foot", <<"x">>)]]
        : n \in 0..MaxItems}

InitLayout == InitWith(ManyWindows)

AllocateLayout == AllocateFrom(LayoutSizes)

NextLayout == AllocateLayout \/ IdlePopulate

SpecLayout == InitLayout /\ [][NextLayout]_vars

(***************************************************************************)
(* SpecDock: the overlay with a dock configuration                          *)
(***************************************************************************)
\* the entries config.json is made of in SpecDock: an app_id that differs
\* from the icon, no app_id (the icon name stands in), neither a usable
\* app_id nor an icon nor a command
DockEntries ==
    {DockEntry("Terminal", "utilities-terminal", "foot", "foot"),
     DockEntry(None, "bar", "bar --new", None),
     DockEntry("t", "", "", "")}

\* config.json in SpecDock: absent, not JSON, {}, an object with one key,
\* an array holding a string, an array of an entry and a string, and the
\* arrays of at most MaxDock entries
DockFiles ==
    {MissingFile, UnparsableFile, JsonFile(JsonObject(0)),
     JsonFile(JsonObject(1)), JsonFile(JsonList(<<NotAnObject>>)),
     JsonFile(JsonList(<<DockEntry(None, "bar", "bar --new", None),
                         NotAnObject>>))}
        \cup {JsonFile(JsonList(es)) : es \in SeqsUpTo(DockEntries, MaxDock)}

\* what `wlrctl toplevel list` answers in SpecDock
DockAnswers ==
    {[ok |-> FALSE, lines |-> <<>>]}
        \cup {[ok |-> TRUE, lines |-> ls]
                : ls \in SeqsUpTo({Line("foot", <<"x">>), Line("", <<"x">>)},
                                  MaxLines)}

InitDock == InitUi(DockAnswers, DockFiles)

\* the mouse buttons pressed on the dock: 1 (left), 2 (middle)
MouseButtons == {1, 2}

\* a press that works out the running flag again from the windows open at
\* the time of the press
DockPressed_Reevaluates ==
    /\ ~closed
    /\ dock.built
    /\ \E i \in 1..Len(dock.buttons), button \in MouseButtons,
          spawned \in BOOLEAN :
        LET handled == button = GestureButton
            now == DockButton(variant, dock.buttons[i].entry,
                              running_apps(get_windows(variant, tool)))
            out == IF handled
                   THEN on_click(variant, now, button, spawned)
                   ELSE Outcome(<<>>, FALSE)
        IN  /\ issued' = issued \o out.inv
            /\ closed' = out.close
            /\ dockEvent' =
                  [index |-> i, button |-> button, handled |-> handled]
    /\ lastEvent' = Event("dock_click", NoTile, <<>>)
    /\ UNCHANGED <<variant, tool, width, height, mapped, idle, windows, tiles,
                   geometry, normVars, cfgFile, dock,
                   appVars, backendVars>>

\* mouse button `button` is pressed on dock button i.  The gesture emits
\* "pressed", and on_click runs, for the button the gesture listens to.
DockPressed ==
    /\ ~closed
    /\ dock.built
    /\ \E i \in 1..Len(dock.buttons), button \in MouseButtons,
          spawned \in BOOLEAN :
        LET handled == button = GestureButton
            out == IF handled
                   THEN on_click(variant, dock.buttons[i], button, spawned)
                   ELSE Outcome(<<>>, FALSE)
        IN  /\ issued' = issued \o out.inv
            /\ closed' = out.close
            /\ dockEvent' =
                  [index |-> i, button |-> button, handled |-> handled]
    /\ lastEvent' = Event("dock_click", NoTile, <<>>)
    /\ UNCHANGED <<variant, tool, width, height, mapped, idle, windows, tiles,
                   geometry, normVars, cfgFile, dock,
                   appVars, backendVars>>

\* an exception that leaves __init__ leaves no window behind: the
\* application has nothing to show and exits
NextDock ==
    \/ ~dock.raised /\ Allocate
    \/ ~dock.raised /\ ToplevelClosed
    \/ ~dock.raised /\ IdlePopulate
    \/ ~dock.raised /\ BackgroundClicked
    \/ ~dock.raised /\ DockPressed

SpecDock == InitDock /\ [][NextDock]_vars

(***************************************************************************)
(* SpecPoll: populate polling a window list that changes                    *)
(***************************************************************************)
\* what `wlrctl toplevel list` answers in SpecPoll: wlrctl absent, a
\* non-zero exit after a line was printed, and 0..MaxLines windows (of
\* foot, with an empty title: `foot:`)
PollAnswers ==
    {[ok |-> FALSE, lines |-> <<>>],
     [ok |-> FALSE, lines |-> <<Line("foot", <<>>)>>]}
        \cup {[ok |-> TRUE, lines |-> [i \in 1..n |-> Line("foot", <<>>)]]
                : n \in 0..MaxLines}

InitPoll == InitWith(PollAnswers)

\* windows open or close, wlrctl starts or stops failing
ToolChanges ==
    /\ ~closed
    /\ tool' \in PollAnswers \ {tool}
    /\ UNCHANGED <<variant, width, height, mapped, idle, windows, tiles,
                   geometry, issued, closed, lastEvent, normVars, dockVars,
                   appVars, backendVars>>

NextPoll ==
    \/ Allocate
    \/ ToolChanges
    \/ IdlePopulate
    \/ OnMap
    \/ BackgroundClicked

\* GLib runs an installed idle source whenever the main loop has nothing
\* else to do
SpecPoll == InitPoll /\ [][NextPoll]_vars /\ WF_vars(IdlePopulate)

(***************************************************************************)
(* SpecTimers: the timeout sources and a second activation                  *)
(***************************************************************************)
\* GLib.timeout_add_seconds(60, self.update_clock): sets the clock label
\* and returns True, so the source stays installed
update_clock ==
    /\ Running
    /\ lastEvent' = Event("clock", NoTile, <<>>)
    /\ UNCHANGED <<variant, tool, width, height, mapped, idle, windows, tiles,
                   geometry, issued, closed, normVars, dockVars,
                   appVars, backendVars>>

\* GLib.timeout_add(2000 or 400, self.update_volume_icon): sets the volume
\* icon and returns True, so the source stays installed
update_volume_icon ==
    /\ Running
    /\ lastEvent' = Event("volume", NoTile, <<>>)
    /\ UNCHANGED <<variant, tool, width, height, mapped, idle, windows, tiles,
                   geometry, issued, closed, normVars, dockVars,
                   appVars, backendVars>>

\* the program is started again while the overlay is open: the running
\* application gets "activate".  wloverview.py presents the window it has,
\* wlroverview.py makes another MainWindow and adds it to the application.
on_activate ==
    /\ Running
    /\ IF variant = "wloverview"
       THEN /\ ~closed
            /\ lastEvent' = Event("present", NoTile, <<>>)
            /\ UNCHANGED otherWindows
       ELSE /\ otherWindows < MaxActivations
            /\ otherWindows' = otherWindows + 1
            /\ UNCHANGED lastEvent
    /\ UNCHANGED <<variant, tool, width, height, mapped, idle, windows, tiles,
                   geometry, issued, closed, normVars, dockVars, backendVars>>

\* one of the other windows is closed
OtherWindowClosed ==
    /\ Running
    /\ otherWindows > 0
    /\ otherWindows' = otherWindows - 1
    /\ UNCHANGED <<uiVars, normVars, dockVars, backendVars>>

NextTimers ==
    \/ Allocate
    \/ IdlePopulate
    \/ update_clock
    \/ update_volume_icon
    \/ on_activate
    \/ OtherWindowClosed
    \/ TileClicked
    \/ BackgroundClicked

\* GLib dispatches an installed source whenever it is due and the main loop
\* runs
SpecTimers ==
    /\ InitPoll
    /\ [][NextTimers]_vars
    /\ WF_vars(IdlePopulate)
    /\ WF_vars(update_clock)
    /\ WF_vars(update_volume_icon)

(***************************************************************************)
(* SpecBackend: the backend of the dock editor                              *)
(***************************************************************************)
\* the entries the editor adds: AppRow.to_dict() leaves out an empty icon
\* and an empty app_id
BackendItems ==
    {DockEntry("Terminal", "utilities-terminal", "foot", "foot"),
     DockEntry("Bar", None, "bar --new", None)}

\* config.json when the editor starts: absent, not JSON, an object, an
\* array with an item that is no object, and the arrays of at most MaxApps
\* entries
BackendFiles ==
    {MissingFile, UnparsableFile, JsonFile(JsonObject(1)),
     JsonFile(JsonList(<<NotAnObject,
                         DockEntry("Bar", None, "bar --new", None)>>))}
        \cup {JsonFile(JsonList(es)) : es \in SeqsUpTo(BackendItems, MaxApps)}

\* the indexes a caller passes: below the list, in it, past its end
Indexes == -1..MaxApps

\* WlOverviewBackend(): self.apps = [], then load()
InitBackend ==
    /\ UiIdle
    /\ NormIdle
    /\ dock = NoDock
    /\ dockEvent = NoDockEvent
    /\ otherWindows = 0
    /\ cfgFile \in BackendFiles
    /\ apps = load(cfgFile)
    /\ lastOp = NoOp

\* a call has returned `r`: self.apps, and the file and the signal if it
\* reached save()
Returned(r, op, index, new_index, item) ==
    /\ apps' = r.apps
    /\ cfgFile' = IF r.saved THEN save(r.apps).file ELSE cfgFile
    /\ lastOp' = [op |-> op, index |-> index, new_index |-> new_index,
                  item |-> item,
                  effects |-> IF r.saved THEN save(r.apps).effects ELSE <<>>]

AddApp ==
    /\ Len(apps) < MaxApps
    /\ \E item \in BackendItems :
        Returned(add_app(apps, item), "add_app", 0, 0, item)
    /\ UNCHANGED <<uiVars, normVars, dock, dockEvent, appVars>>

RemoveApp ==
    /\ \E index \in Indexes :
        Returned(remove_app(apps, index), "remove_app", index, 0, NotAnObject)
    /\ UNCHANGED <<uiVars, normVars, dock, dockEvent, appVars>>

MoveApp ==
    /\ \E old_index \in Indexes, new_index \in Indexes :
        Returned(move_app(apps, old_index, new_index), "move_app",
                 old_index, new_index, NotAnObject)
    /\ UNCHANGED <<uiVars, normVars, dock, dockEvent, appVars>>

UpdateApp ==
    /\ \E index \in Indexes, item \in BackendItems :
        Returned(update_app(apps, index, item), "update_app", index, 0, item)
    /\ UNCHANGED <<uiVars, normVars, dock, dockEvent, appVars>>

NextBackend ==
    \/ AddApp
    \/ RemoveApp
    \/ MoveApp
    \/ UpdateApp

SpecBackend == InitBackend /\ [][NextBackend]_vars

(***************************************************************************)
(* Properties of the focus and close handlers (checked under Spec)          *)
(***************************************************************************)
\* the match specs of the invocations the last handler made, in order
IssuedByLast ==
    [j \in 1..(Len(issued) - lastEvent.base) |->
        issued[lastEvent.base + j].match]

\* the focus cascade as the specification lists it
SpecCascade(appId, rawTitle, normalizedTitle) ==
    <<AppTitle("app_id", appId, rawTitle), AppTitle("app-id", appId, rawTitle)>>
    \o (IF normalizedTitle # rawTitle
        THEN <<AppTitle("app_id", appId, normalizedTitle),
               AppTitle("app-id", appId, normalizedTitle)>>
        ELSE <<>>)
    \o <<TitleOnly(rawTitle)>>
    \o (IF normalizedTitle # rawTitle
        THEN <<TitleOnly(normalizedTitle)>> ELSE <<>>)
    \o <<AppOnly("app_id", appId), AppOnly("app-id", appId)>>

InSeq(x, q) == \E j \in 1..Len(q) : q[j] = x

\* the last handler was the click on a tile whose window has an app id and
\* a title that is not empty, raw or normalized
ClickedTitledWindow ==
    /\ lastEvent.kind = "tile_clicked"
    /\ lastEvent.tile.appid # ""
    /\ lastEvent.tile.title_raw # <<>>
    /\ lastEvent.tile.title_norm # <<>>

\* C1: one focus_window call issues every attempt it has put on its tries
\* list(s), one after the other, whatever exit status each attempt returns.
C1_AllAttemptsIssued ==
    lastEvent.kind = "tile_clicked" =>
        /\ IssuedByLast = lastEvent.tries
        /\ \A j \in 1..Len(IssuedByLast) :
              /\ issued[lastEvent.base + j].action = "focus"
              /\ issued[lastEvent.base + j].wait

\* C2: the match specs one focus_window(appId, rawTitle, normalizedTitle)
\* call issues are, in this order: appId+rawTitle under app_id and app-id,
\* the same with normalizedTitle if it differs, title rawTitle, title
\* normalizedTitle if it differs, appId alone under app_id and app-id.
C2_CascadeOrder ==
    ClickedTitledWindow =>
        IssuedByLast = SpecCascade(lastEvent.tile.appid,
                                   lastEvent.tile.title_raw,
                                   lastEvent.tile.title_norm)

\* C3: within one focus_window call the attempts that carry the normalized
\* title (with appId under either key, and alone) are issued when it differs
\* from the raw title, and when the two are equal no match spec is issued
\* twice.
C3_NormalizedIffDiffers ==
    ClickedTitledWindow =>
        LET t == lastEvent.tile
        IN  IF t.title_norm # t.title_raw
            THEN /\ InSeq(AppTitle("app_id", t.appid, t.title_norm), IssuedByLast)
                 /\ InSeq(AppTitle("app-id", t.appid, t.title_norm), IssuedByLast)
                 /\ InSeq(TitleOnly(t.title_norm), IssuedByLast)
            ELSE \A j, k \in 1..Len(IssuedByLast) :
                    IssuedByLast[j] = IssuedByLast[k] => j = k

\* C4: a press of a tile's close button issues exactly one invocation:
\* action close, match spec app_id:appId title:normalizedTitle of that tile;
\* no focus, no launch, and the overlay stays open.
C4_CloseSingleAction ==
    lastEvent.kind = "tile_close" =>
        /\ Len(issued) = lastEvent.base + 1
        /\ issued[Len(issued)].action = "close"
        /\ issued[Len(issued)].match =
              AppTitle("app_id", lastEvent.tile.appid,
                       normalize_title(StrArg(lastEvent.tile.title_raw)))
        /\ \A j \in 1..Len(issued) : issued[j].action = "close"

\* the close button of the tile of foot:"x" EM-DASH has been pressed and
\* the close of app_id:foot title:"x-" is the one invocation made
C4_Witness ==
    /\ lastEvent.kind = "tile_close"
    /\ lastEvent.tile.appid = "foot"
    /\ lastEvent.tile.title_raw = <<"x", "EMDASH">>
    /\ issued = <<Invocation("close",
                             AppTitle("app_id", "foot", <<"x", "-">>),
                             FALSE)>>
    /\ ~closed

(***************************************************************************)
(* Properties of the layout solver (checked under SpecLayout)               *)
(***************************************************************************)
\* populate has built a grid
GridBuilt == tiles # <<>>

\* C8: for itemCount >= 1 windows in a window of at least 200 x 200 the
\* solved layout has 1 <= columns <= itemCount and rows = the least number
\* of rows of that many columns that hold all items.
C8_GeometryValid ==
    GridBuilt =>
        /\ width >= MinDimension /\ height >= MinDimension
        /\ 1 <= geometry.columns
        /\ geometry.columns <= Len(tiles)
        /\ geometry.rows * geometry.columns >= Len(tiles)
        /\ (geometry.rows - 1) * geometry.columns < Len(tiles)

\* five windows at 1000 x 700 are laid out in 3 columns and 2 rows
C8_Witness ==
    /\ Len(tiles) = 5
    /\ width = 1000 /\ height = 700
    /\ geometry.columns = 3
    /\ geometry.rows = 2

\* C9: the chosen tile width is the maximum of the candidate tile widths
\* over columns 1..itemCount and the chosen column count attains it; for 5
\* windows at 1000 x 700 the choice is 3 columns.  (Among candidates that
\* are equal as exact numbers the claim names the smallest column count;
\* that part is left out here because the doubles of the code need not be
\* equal.)
C9_MaxCandidate ==
    GridBuilt =>
        LET n == Len(tiles)
            cand(c) == Candidate(variant, n, width, height, c)
        IN  /\ \A c \in 1..n : ~FracLess(geometry.best_w, cand(c))
            /\ FracEq(cand(geometry.columns), geometry.best_w)
            /\ (n = 5 /\ width = 1000 /\ height = 700) => geometry.columns = 3

\* C10: the solved grid fits the share of the window it may take:
\* columns*tileWidth + (columns-1)*spacing <= width*widthFraction and
\* rows*tileHeight + (rows-1)*spacing <= height*heightFraction.
C10_WithinBounds ==
    GridBuilt =>
        /\ 20 * (geometry.columns * geometry.tile_w
                    + (geometry.columns - 1) * spacing)
              <= width * WidthFraction20(variant)
        /\ 20 * (geometry.rows * geometry.tile_h
                    + (geometry.rows - 1) * spacing)
              <= height * HeightFraction20(variant)

\* C11: every candidate tile width is clamped from below to minTileWidth (a
\* positive width) and from above to containerWidth * maxTileWidthFraction,
\* so the solved tile width of a built grid is a positive number no larger
\* than the container width.
C11_ClampedWidth ==
    GridBuilt =>
        /\ geometry.tile_w > 0
        /\ geometry.tile_w <= width

\* C12: for a fixed window size the solved tile width does not grow with
\* the number of windows: every tile width the solver can return for
\* itemCount + 1 windows is at most the one of the grid built for itemCount.
C12_Monotone ==
    GridBuilt =>
        \A next \in Solve(variant, Len(tiles) + 1, width, height) :
            next.tile_w <= geometry.tile_w

\* a grid of 6 tiles of width 285 at 1000 x 700 in wloverview.py, where 7
\* windows get tiles of width 229
C12_Witness ==
    /\ variant = "wloverview"
    /\ Len(tiles) = 6
    /\ width = 1000 /\ height = 700
    /\ geometry.tile_w = 285
    /\ \A next \in Solve(variant, 7, width, height) : next.tile_w = 229

\* the window list the enumerator returns at present is empty
NoWindows == get_windows(variant, tool) = <<>>

\* C13: a populate call that finds no window computes no geometry and
\* attaches no tile: the grid is empty, the solver has not run, and the call
\* has returned True (not ready).
C13_EmptyNoGeometry ==
    (lastEvent.kind = "populate" /\ NoWindows) =>
        /\ tiles = <<>>
        /\ geometry = NoGeometry
        /\ idle

\* populate has run in a 1000 x 700 window while no window was open
C13_Witness ==
    /\ lastEvent.kind = "populate"
    /\ NoWindows
    /\ tool.ok
    /\ width = 1000 /\ height = 700
    /\ tiles = <<>>

(***************************************************************************)
(* Properties of the dock (checked under SpecDock)                          *)
(***************************************************************************)
\* the last handler was a press on a dock button; the button pressed
DockClicked == lastEvent.kind = "dock_click"
Pressed == dock.buttons[dockEvent.index]

\* the invocations the last handler made, in order
InvocationsOfLast == SubSeq(issued, lastEvent.base + 1, Len(issued))

\* C14 as stated: for every dock entry, isRunning is true if and only if
\* the entry's effective appId (app_id if the entry has one, else icon) is
\* among the appIds of the windows enumerated when the flag was evaluated.
C14_RunningIffMember ==
    \A i \in 1..Len(dock.buttons) :
        LET e == dock.buttons[i].entry
            effective == IF e.app_id # None THEN e.app_id ELSE e.icon
        IN  dock.buttons[i].is_running <=> effective \in dock.running_apps

\* C14 as amended: for every dock entry whose effective appId (app_id if
\* present and not empty, else icon) is a non-empty string, isRunning is
\* true if and only if that appId is among the appIds of the windows
\* enumerated when the flag was evaluated.
C14_RunningIffLive ==
    \A i \in 1..Len(dock.buttons) :
        LET e == dock.buttons[i].entry
            effective == IF Truthy(e.app_id) THEN e.app_id ELSE e.icon
        IN  Truthy(effective) =>
                (dock.buttons[i].is_running <=>
                    effective \in dock.running_apps)

\* a dock of the entry with app_id foot (running, a foot window is open)
\* and the entry with icon bar (not running)
C14_Witness ==
    /\ dock.built
    /\ Len(dock.buttons) = 2
    /\ dock.buttons[1].entry.app_id = "foot"
    /\ dock.buttons[1].is_running
    /\ dock.buttons[2].entry.icon = "bar"
    /\ ~dock.buttons[2].is_running
    /\ dock.running_apps = {"foot", ""}

\* C15: a left click on a dock entry that is running issues focus actions
\* for the entry's application (at least one, each matching its appId) and
\* launches nothing.
C15_RunningFocuses ==
    (DockClicked /\ dockEvent.button = 1 /\ Pressed.is_running) =>
        /\ InvocationsOfLast # <<>>
        /\ \A j \in 1..Len(InvocationsOfLast) :
              /\ InvocationsOfLast[j].action = "focus"
              /\ InvocationsOfLast[j].match.appid = Pressed.app_id

\* C16: a left click on a dock entry that is not running calls launch with
\* the entry's exec command: it issues no focus action, and nothing but the
\* launch of that command (none when the command is empty or cannot be
\* started).
C16_NotRunningLaunches ==
    (DockClicked /\ dockEvent.button = 1 /\ ~Pressed.is_running) =>
        /\ dockEvent.handled
        /\ Len(InvocationsOfLast) <= 1
        /\ \A j \in 1..Len(InvocationsOfLast) :
              InvocationsOfLast[j] =
                  Invocation("launch", Argv(Pressed.entry.exec), FALSE)
        /\ (closed /\ Truthy(Pressed.entry.exec)) => Len(InvocationsOfLast) = 1
        /\ ~Truthy(Pressed.entry.exec) => closed

\* the entry with icon bar, not running, has been left-clicked and
\* `bar --new` launched
C16_Witness ==
    /\ DockClicked
    /\ dockEvent.button = 1
    /\ ~Pressed.is_running
    /\ Pressed.entry.icon = "bar"
    /\ InvocationsOfLast = <<Invocation("launch", Argv("bar --new"), FALSE)>>
    /\ closed

\* C17: a middle click on a dock entry runs the click handler, which
\* launches the entry's command whether or not the entry is running and
\* issues no focus action.
C17_MiddleLaunches ==
    (DockClicked /\ dockEvent.button = 2) =>
        /\ dockEvent.handled
        /\ \A j \in 1..Len(InvocationsOfLast) :
              InvocationsOfLast[j].action = "launch"

\* config.json cannot be used as an array of entry objects
UnusableConfig ==
    \/ ~cfgFile.exists
    \/ ~cfgFile.parses
    \/ cfgFile.value.type # "list"
    \/ \E i \in 1..Len(cfgFile.value.items) : ~cfgFile.value.items[i].isObject

\* C20: a config.json that is missing, is not JSON, or is JSON but not an
\* array of objects means no dock: build_dock builds none and raises no
\* exception.
C20_UnusableConfigNoDock ==
    UnusableConfig => (~dock.built /\ ~dock.raised)

(***************************************************************************)
(* Properties of the populate polling (checked under SpecPoll)              *)
(***************************************************************************)
\* a populate call now would find a window and a window size of at least
\* 200 x 200
PollReady ==
    /\ get_windows(variant, tool) # <<>>
    /\ width >= MinDimension
    /\ height >= MinDimension

\* C18: a populate call of the idle source returns True (and stays
\* installed) exactly when there is no window or the width or height is
\* below 200, and leaves the grid empty then; otherwise it builds the grid
\* and returns False, and the idle source, once removed, is never installed
\* again.  If from some time on there are windows and a real size and the
\* overlay stays open, the grid is populated at some time.
C18_RetryUntilReady ==
    /\ [][IdlePopulate =>
            /\ idle' = ~PollReady
            /\ PollReady => tiles' # <<>>
            /\ ~PollReady => tiles' = <<>>]_vars
    /\ [][~idle => ~idle']_vars
    /\ (<>[](PollReady /\ ~closed)) => <>GridBuilt

\* the idle source has been removed after populate built a grid of two
\* tiles in a 1000 x 700 window
C18_Witness ==
    /\ lastEvent.kind = "populate"
    /\ ~idle
    /\ Len(tiles) = 2
    /\ width = 1000 /\ height = 700
    /\ ~closed

\* C19: a populate call made while the enumeration tool fails (absent, or
\* non-zero exit whatever it printed) sees an empty window list: it builds
\* no tile, keeps the idle source installed for a retry and leaves the
\* overlay open.
C19_FailureIsNotReady ==
    /\ [][(IdlePopulate /\ ~tool.ok) =>
            /\ tiles' = <<>>
            /\ geometry' = NoGeometry
            /\ idle'
            /\ ~closed']_vars
    /\ [][(OnMap /\ variant = "wloverview" /\ ~tool.ok) =>
            /\ tiles' = <<>>
            /\ windows' = <<>>
            /\ idle' = idle
            /\ ~closed']_vars

\* populate has run in a 1000 x 700 window while wlrctl exits non-zero
\* after printing a line: no tile, idle source still installed
C19_Witness ==
    /\ lastEvent.kind = "populate"
    /\ ~tool.ok
    /\ tool.lines # <<>>
    /\ width = 1000 /\ height = 700
    /\ tiles = <<>>
    /\ idle
    /\ ~closed

(***************************************************************************)
(* Properties of the enumeration snapshot and the grid (checked under Spec) *)
(***************************************************************************)
\* a step in which populate runs: the idle source, or the "map" handler of
\* wloverview.py
PopulateStep == IdlePopulate \/ (OnMap /\ variant = "wloverview")

\* the window size is at least 200 x 200
RealSize == width >= MinDimension /\ height >= MinDimension

\* a well-formed line appId:title of another application
IsOtherWindow(l) == l.colon /\ l.appid # OwnAppId

\* the same, title "wloverview" in any letter case left out
IsOtherWindowNotTitled(l) ==
    IsOtherWindow(l) /\ Lower(Strip(l.title)) # <<"wloverview">>

\* the tiles show the given lines, one tile per line, in order
TilesShow(ts, lines) ==
    /\ Len(ts) = Len(lines)
    /\ \A i \in 1..Len(lines) :
          /\ ts[i].appid = lines[i].appid
          /\ ts[i].title_raw = Strip(lines[i].title)

\* C21 as stated: the snapshot a populate call shows holds no entry of the
\* overview's own appId, and holds every other well-formed appId:title line
\* the tool printed, in order.
C21_OwnExcludedOthersKept ==
    [][(PopulateStep /\ RealSize /\ tool.ok) =>
            /\ \A i \in 1..Len(tiles') : tiles'[i].appid # OwnAppId
            /\ TilesShow(tiles', SelectSeq(tool.lines, IsOtherWindow))]_vars

\* C21 as amended: no entry of the overview's own appId; wloverview.py
\* keeps every other well-formed line in order, wlroverview.py every other
\* well-formed line whose title is not "wloverview" in any letter case.
C21_OwnExcluded ==
    [][(PopulateStep /\ RealSize /\ tool.ok) =>
            /\ \A i \in 1..Len(tiles') : tiles'[i].appid # OwnAppId
            /\ TilesShow(tiles',
                         IF variant = "wloverview"
                         THEN SelectSeq(tool.lines, IsOtherWindow)
                         ELSE SelectSeq(tool.lines, IsOtherWindowNotTitled))]_vars

\* the tool lists the overview itself and foot, and the grid built from it
\* holds the one tile of foot
C21_Witness ==
    /\ lastEvent.kind = "populate"
    /\ tool.ok
    /\ tool.lines = <<Line(OwnAppId, <<"x">>), Line("foot", <<"SPACE", "x">>)>>
    /\ Len(tiles) = 1
    /\ tiles[1].appid = "foot"
    /\ tiles[1].title_raw = <<"x">>

\* C23: no external invocation (focus, close, launch) makes the handler
\* wait for the external process to finish.
C23_FireAndForget ==
    \A j \in 1..Len(issued) : ~issued[j].wait

\* C24: a populate call that finds N >= 1 windows in a window of real size
\* leaves exactly N tiles in the grid, the i-th window of its snapshot
\* (0-based) at row i div columns and column i mod columns, whatever the
\* grid held before; any other populate call leaves the grid empty.
C24_OneSnapshotInGrid ==
    [][PopulateStep =>
            LET wins == get_windows(variant, tool)
            IN  IF wins # <<>> /\ RealSize
                THEN /\ geometry'.columns >= 1
                     /\ Len(tiles') = Len(wins)
                     /\ \A i \in 1..Len(wins) :
                           /\ tiles'[i].appid = wins[i].appid
                           /\ tiles'[i].title_raw = wins[i].title_raw
                           /\ tiles'[i].title_norm = wins[i].title_norm
                           /\ tiles'[i].row = (i - 1) \div geometry'.columns
                           /\ tiles'[i].col = (i - 1) % geometry'.columns
                ELSE tiles' = <<>>]_vars

\* wloverview.py has run populate from the "map" handler and from the idle
\* source, and the grid holds the two tiles of the last snapshot
C24_Witness ==
    /\ variant = "wloverview"
    /\ mapped
    /\ ~idle
    /\ lastEvent.kind = "populate"
    /\ Len(tiles) = 2
    /\ Len(windows) = 2
    /\ tiles[2].row = 0 /\ tiles[2].col = 1

\* C25: the dock, with the running flag of every entry, is what build_dock
\* made of the windows open at start-up: no later step (a window closing, a
\* populate poll) changes it, and a click decides on the captured flag, in
\* wlroverview.py focus for a running entry and no focus for any other,
\* whatever windows are open by then.
C25_FlagsFixedAtBuild ==
    /\ [][dock' = dock]_vars
    /\ []((DockClicked /\ dockEvent.handled /\ variant = "wlroverview") =>
            IF Pressed.is_running
            THEN InvocationsOfLast =
                    <<Invocation("focus", AppOnly("app_id", Pressed.app_id),
                                 TRUE)>>
            ELSE \A j \in 1..Len(InvocationsOfLast) :
                    InvocationsOfLast[j].action = "launch")

\* the foot window has gone and populate has built the grid of the one
\* window left; the entry of foot still counts as running and a click on
\* it issues the focus action
C25_Witness ==
    /\ variant = "wlroverview"
    /\ DockClicked
    /\ dockEvent.handled
    /\ Pressed.app_id = "foot"
    /\ Pressed.is_running
    /\ "foot" \notin running_apps(get_windows(variant, tool))
    /\ Len(tiles) = 1
    /\ tiles[1].appid = ""
    /\ InvocationsOfLast =
          <<Invocation("focus", AppOnly("app_id", "foot"), TRUE)>>

\* C26: a click on a tile and a click the dock handler runs for (focus or
\* launch, the empty command included) leave the overlay closed; a press
\* on a tile's close button leaves it open.
C26_ActivationCloses ==
    /\ lastEvent.kind = "tile_clicked" => closed
    /\ (DockClicked /\ dockEvent.handled) => closed
    /\ lastEvent.kind = "tile_close" => ~closed

(***************************************************************************)
(* Properties of the scheduled callbacks (checked under SpecTimers)         *)
(***************************************************************************)
\* C22: once the overlay window has been closed, no clock refresh, no
\* volume-icon refresh and no populate retry of that window runs again.
C22_ClosedStopsCallbacks ==
    [][closed => ~(update_clock \/ update_volume_icon \/ IdlePopulate)]_vars

(***************************************************************************)
(* Properties of the dock editor backend (checked under SpecBackend)        *)
(***************************************************************************)
\* the call recorded in o, made on the list l, names an index outside l
OutOfRange(o, l) ==
    \/ o.op \in {"remove_app", "update_app"} /\ ~InRange(o.index, l)
    \/ o.op = "move_app"
          /\ (~InRange(o.index, l) \/ ~InRange(o.new_index, l))

Without(l, i) == [j \in 1..(Len(l) - 1) |-> IF j <= i THEN l[j] ELSE l[j + 1]]

\* how many times x occurs in l
Occurrences(x, l) == Cardinality({j \in 1..Len(l) : l[j] = x})

\* C28: move_app(old, new) with both indexes in range keeps the length and
\* the number of occurrences of every entry, puts the entry that was at
\* old at new, keeps the order of the other entries, and with old = new
\* leaves the list as it was.
C28_MoveReorders ==
    [][(/\ lastOp'.op = "move_app"
        /\ InRange(lastOp'.index, apps)
        /\ InRange(lastOp'.new_index, apps)) =>
            LET old == lastOp'.index
                new == lastOp'.new_index
            IN  /\ Len(apps') = Len(apps)
                /\ \A x \in BackendItems :
                      Occurrences(x, apps') = Occurrences(x, apps)
                /\ apps'[new + 1] = apps[old + 1]
                /\ Without(apps', new) = Without(apps, old)
                /\ old = new => apps' = apps]_vars

\* move_app(0, 2) has moved the first of three entries to the end
C28_Witness ==
    /\ lastOp.op = "move_app"
    /\ lastOp.index = 0
    /\ lastOp.new_index = 2
    /\ lastOp.effects # <<>>
    /\ Len(apps) = 3
    /\ apps[3].title = "Terminal"
    /\ apps[1].title = "Bar"
    /\ apps[2].title = "Terminal"

====
